---- MODULE Spec2Model ----
(***************************************************************************)
(* Model of diff_gaussian_rasterization/__init__.py: the facade            *)
(* GaussianRasterizer, the checked wrapper rasterize_gaussians and the     *)
(* autograd operator _RasterizeGaussians (forward / backward), together    *)
(* with the debug snapshot taken around the two native entry points.       *)
(*                                                                         *)
(* Tensors, scalars and flags are symbolic records.  A tensor carries the  *)
(* name of the argument it was created for, the call (or the settings      *)
(* version) it belongs to, its shape, the device it lives on and whether   *)
(* its storage still holds the original data.                              *)
(***************************************************************************)
EXTENDS Integers, Sequences, FiniteSets, TLC

\* ------------------------------------------------------------------ bounds
NumInst == 2        \* operator invocations (autograd contexts) per run
NumSettings == 2    \* settings objects the caller builds
NumGauss == 2       \* primitives per call (the num_gaussians dimension)

\* ----------------------------------------------------------- the state
VARIABLES
    raster_settings,   \* GaussianRasterizer.raster_settings
    ctx,               \* the autograd contexts, one per _RasterizeGaussians.apply
    last,              \* the most recent call: what it was given, passed on,
                       \* wrote, returned and raised
    twin               \* one call run with debug on and with debug off

vars == <<raster_settings, ctx, last, twin>>

\* ------------------------------------------------------------------ values
None == [kind |-> "None"]

Tensor(n, s, sh) ==
    [kind |-> "tensor", name |-> n, src |-> s, shape |-> sh,
     dev |-> "cuda", data |-> "orig"]

\* torch.Tensor([]): a one-dimensional float tensor with zero elements
EmptyTensor ==
    [kind |-> "tensor", name |-> "empty", src |-> 0, shape |-> <<0>>,
     dev |-> "cpu", data |-> "orig"]

Scalar(n, s) == [kind |-> "scalar", name |-> n, src |-> s]

Flag(n, v) == [kind |-> "flag", name |-> n, on |-> v]

IsTensor(x) == x.kind = "tensor"

\* class GaussianRasterizationSettings(NamedTuple): version v, debug flag d
GaussianRasterizationSettings(v, d) ==
    [image_height   |-> Scalar("image_height", v),
     image_width    |-> Scalar("image_width", v),
     tanfovx        |-> Scalar("tanfovx", v),
     tanfovy        |-> Scalar("tanfovy", v),
     bg             |-> Tensor("bg", v, <<3>>),
     scale_modifier |-> Scalar("scale_modifier", v),
     cov_offset     |-> Scalar("cov_offset", v),
     viewmatrix     |-> Tensor("viewmatrix", v, <<4, 4>>),
     projmatrix     |-> Tensor("projmatrix", v, <<4, 4>>),
     sh_degree      |-> Scalar("sh_degree", v),
     prefiltered    |-> Scalar("prefiltered", v),
     debug          |-> Flag("debug", d)]

\* the settings objects of a run: debugging is switched on in every other one
AllSettings ==
    {GaussianRasterizationSettings(v, v % 2 = 1) : v \in 1..NumSettings}

\* ------------------------------------------------- the facade's arguments
Optional ==
    {"shs", "colors_precomp", "scales", "rotations", "cov3D_precomp",
     "camerapos", "camerarot"}

\* the shape a caller gives to the tensor it supplies for a parameter
ShapeOf(n) ==
    CASE n \in {"means3D", "means2D", "colors_precomp", "scales"} -> <<NumGauss, 3>>
      [] n = "opacities"      -> <<NumGauss, 1>>
      [] n = "shs"            -> <<NumGauss, 16, 3>>
      [] n = "rotations"      -> <<NumGauss, 4>>
      [] n = "cov3D_precomp"  -> <<NumGauss, 6>>
      [] n = "camerapos"      -> <<3>>
      [] n = "camerarot"      -> <<4, 4>>

\* the keyword arguments of call i when the caller supplies the set sup
FacadeArgs(i, sup) ==
    [n \in {"means3D", "means2D", "opacities"} \cup Optional |->
        IF n \in Optional /\ n \notin sup THEN None ELSE Tensor(n, i, ShapeOf(n))]

\* ------------------------------------------ GaussianRasterizer.forward
\* lines 308-310: zero or both colour representations
ColourViolation(a) ==
    \/ (a.shs = None /\ a.colors_precomp = None)
    \/ (a.shs # None /\ a.colors_precomp # None)

\* a variant that misses a scale given without a rotation
CovarianceViolation_PairAnd(a) ==
    \/ ((a.scales = None /\ a.rotations = None) /\ a.cov3D_precomp = None)
    \/ ((a.scales # None \/ a.rotations # None) /\ a.cov3D_precomp # None)

\* lines 315-317: the scale/rotation pair against the precomputed covariance
CovarianceViolation(a) ==
    \/ ((a.scales = None \/ a.rotations = None) /\ a.cov3D_precomp = None)
    \/ ((a.scales # None \/ a.rotations # None) /\ a.cov3D_precomp # None)

\* lines 322-337: if x is None: x = torch.Tensor([])
OrEmpty(x) == IF x = None THEN EmptyTensor ELSE x

\* lines 340-352: the positional arguments handed to rasterize_gaussians
DelegatedArgs(a, rs) ==
    <<a.means3D, a.means2D, OrEmpty(a.shs), OrEmpty(a.colors_precomp),
      a.opacities, OrEmpty(a.scales), OrEmpty(a.rotations),
      OrEmpty(a.cov3D_precomp), OrEmpty(a.camerapos), OrEmpty(a.camerarot), rs>>

\* --------------------------------------------- @jaxtyped @typechecked
\* one dimension of a jaxtyping shape string against a concrete size;
\* n is the size num_gaussians is bound to within the call
DimOK(d, p, n) ==
    CASE p = "num_gaussians" -> d = n
      [] p \in {"num_coeffs", "num_channels"} -> TRUE
      [] p = "1" -> d = 1
      [] p = "3" -> d = 3
      [] p = "4" -> d = 4

\* isinstance(t, Float[Tensor, pat])
IsFloat(t, pat, n) ==
    /\ IsTensor(t)
    /\ Len(t.shape) = Len(pat)
    /\ \A k \in 1..Len(pat) : DimOK(t.shape[k], pat[k], n)

\* the annotations of rasterize_gaussians (lines 46-58)
TypeCheck_rasterize_gaussians(op) ==
    LET n == op[1].shape[1] IN
    /\ IsFloat(op[1], <<"num_gaussians", "3">>, n)
    /\ IsFloat(op[2], <<"num_gaussians", "3">>, n)
    /\ IsFloat(op[3], <<"num_gaussians", "num_coeffs", "num_channels">>, n)
    /\ (IsFloat(op[4], <<"num_gaussians", "3">>, n) \/ IsTensor(op[4]))
    /\ IsFloat(op[5], <<"num_gaussians", "1">>, n)
    /\ IsFloat(op[6], <<"num_gaussians", "3">>, n)
    /\ IsFloat(op[7], <<"num_gaussians", "4">>, n)
    /\ IsTensor(op[8])
    /\ IsFloat(op[9], <<"3">>, n)
    /\ IsFloat(op[10], <<"4", "4">>, n)

\* the annotations of _RasterizeGaussians.forward (lines 79-92)
TypeCheck_forward(op) ==
    LET n == op[1].shape[1] IN
    /\ IsFloat(op[1], <<"num_gaussians", "3">>, n)
    /\ IsFloat(op[2], <<"num_gaussians", "3">>, n)
    /\ IsFloat(op[3], <<"num_gaussians", "num_coeffs", "num_channels">>, n)
    /\ (IsFloat(op[4], <<"num_gaussians", "3">>, n) \/ IsTensor(op[4]))
    /\ IsFloat(op[5], <<"num_gaussians", "1">>, n)
    /\ IsFloat(op[6], <<"num_gaussians", "3">>, n)
    /\ IsFloat(op[7], <<"num_gaussians", "4">>, n)
    /\ IsTensor(op[8])
    /\ IsTensor(op[9])
    /\ IsTensor(op[10])

\* ------------------------------------------------- debug snapshot helper
\* cpu_deep_copy_tuple: tensors are moved to the host and cloned, everything
\* else is kept as it is
cpu_deep_copy_tuple(input_tuple) ==
    [k \in DOMAIN input_tuple |->
        IF IsTensor(input_tuple[k])
        THEN [input_tuple[k] EXCEPT !.dev = "cpu"]
        ELSE input_tuple[k]]

\* what a failing native call may leave behind in the tensors it was given
Corrupted(args) ==
    [k \in DOMAIN args |->
        IF IsTensor(args[k]) THEN [args[k] EXCEPT !.data = "corrupt"] ELSE args[k]]

NoDump == [file |-> "none", content |-> <<>>]

\* the environment of one native call: whether it succeeds, whether a
\* failing call corrupted its arguments, whether torch.save succeeds
Env == [nat : {"ok", "fail"}, corrupt : BOOLEAN, save : {"ok", "fail"}]

\* the outcomes that differ in behaviour: one when the native entry point is
\* not reached, corruption only with a failure, the outcome of torch.save
\* only when it runs
EnvOf(reached, debug) ==
    IF ~reached THEN {[nat |-> "ok", corrupt |-> FALSE, save |-> "ok"]}
    ELSE IF debug THEN {e \in Env : e.nat = "ok" => (~e.corrupt /\ e.save = "ok")}
    ELSE {e \in Env : e.save = "ok" /\ (e.nat = "ok" => ~e.corrupt)}

\* ------------------------------------------------ the native entry points
\* _C.rasterize_gaussians for call i: (numRendered, image, radii, geomBuffer,
\* binningBuffer, imageBuffer, depth).  The results are opaque to the bridge,
\* which never reads their shape.
NativeRasterize(i) ==
    <<Scalar("numRendered", i), Tensor("image", i, <<>>), Tensor("radii", i, <<>>),
      Tensor("geomBuffer", i, <<>>), Tensor("binningBuffer", i, <<>>),
      Tensor("imageBuffer", i, <<>>), Tensor("depth", i, <<>>)>>

\* _C.rasterize_gaussians_backward for call i
NativeBackward(i) ==
    <<Tensor("gradMeans2D", i, <<>>), Tensor("gradColorRepr", i, <<>>),
      Tensor("gradOpacities", i, <<>>), Tensor("gradMeans3D", i, <<>>),
      Tensor("gradCovRepr", i, <<>>), Tensor("gradSh", i, <<>>),
      Tensor("gradScales", i, <<>>), Tensor("gradRotations", i, <<>>),
      Tensor("gradCameraRot", i, <<>>)>>

\* ------------------------------------------- _RasterizeGaussians.forward
\* op = <<means3D, means2D, sh, colors_precomp, opacities, scales, rotations,
\*        cov3Ds_precomp, camerapos, camerarot, raster_settings>>
\* a variant with the two field-of-view tangents exchanged
ForwardArgs_FovSwapped(op) ==
    LET settings == op[11] IN
    <<settings.bg, op[1], op[4], op[5], op[6], op[7],
      settings.scale_modifier, settings.cov_offset, op[8],
      settings.viewmatrix, settings.projmatrix,
      settings.tanfovy, settings.tanfovx,
      settings.image_height, settings.image_width,
      op[3], settings.sh_degree, op[9],
      settings.prefiltered, settings.debug>>

\* lines 94-115
ForwardArgs(op) ==
    LET settings == op[11] IN
    <<settings.bg, op[1], op[4], op[5], op[6], op[7],
      settings.scale_modifier, settings.cov_offset, op[8],
      settings.viewmatrix, settings.projmatrix,
      settings.tanfovx, settings.tanfovy,
      settings.image_height, settings.image_width,
      op[3], settings.sh_degree, op[9],
      settings.prefiltered, settings.debug>>

\* lines 119-121: the copy is made from the arguments as they are before the
\* native call; after is what the call left of them
ForwardSnapshot(args, after) == cpu_deep_copy_tuple(args)

\* a variant that hands the host copy to the native call when there is one
ForwardPassed_HostCopy(args, cpu_args) == IF cpu_args = <<>> THEN args ELSE cpu_args

\* lines 131 and 147: _C.rasterize_gaussians(*args)
ForwardPassed(args, cpu_args) == args

\* lines 152-166, ret = (num_rendered, color, radii, geomBuffer,
\* binningBuffer, imgBuffer, depth)
ForwardSaved(op, ret) ==
    <<op[4], op[1], op[6], op[7], op[8], ret[3], op[3],
      ret[4], ret[5], ret[6], op[9], op[10], ret[7]>>

\* lines 150-166: what the context holds once forward has completed
ForwardCtx(op, ret) ==
    [life |-> "fresh", raster_settings |-> op[11], num_rendered |-> ret[1],
     saved_tensors |-> ForwardSaved(op, ret)]

\* line 167
ForwardReturn(ret) == <<ret[2], ret[3], ret[7]>>

\* a context no forward has completed on, and no context at all
BareCtx == [life |-> "bare"]
NoCtx == [life |-> "none"]

\* lines 132-137: except Exception as ex: torch.save(...); print(...); raise ex
ForwardFailure(cpu_args, e) ==
    IF e.save = "ok"
    THEN [raised |-> "NativeError",
          dump |-> [file |-> "snapshot_fw.dump", content |-> cpu_args]]
    ELSE [raised |-> "SaveError", dump |-> NoDump]

\* lines 93-167: the body of forward for call i under environment e
RasterizeGaussians_forward(i, op, e) ==
    LET args == ForwardArgs(op)
        debug == op[11].debug.on
        after == IF e.corrupt THEN Corrupted(args) ELSE args
        cpu_args == IF debug THEN ForwardSnapshot(args, after) ELSE <<>>
        passed == ForwardPassed(args, cpu_args)
        ret == NativeRasterize(i)
        fail == IF debug THEN ForwardFailure(cpu_args, e)
                ELSE [raised |-> "NativeError", dump |-> NoDump]
    IN  IF e.nat = "ok"
        THEN [raised |-> "NoError", nativeArgs |-> passed, after |-> after,
              dump |-> NoDump, ret |-> ForwardReturn(ret),
              ctx |-> ForwardCtx(op, ret)]
        ELSE [raised |-> fail.raised, nativeArgs |-> passed, after |-> after,
              dump |-> fail.dump, ret |-> <<>>, ctx |-> BareCtx]

\* a call that raised before the native entry point was reached
Raised(err, c) ==
    [raised |-> err, nativeArgs |-> <<>>, after |-> <<>>, dump |-> NoDump,
     ret |-> <<>>, ctx |-> c]

\* lines 44-72 and 76-92: the checked wrapper, then _RasterizeGaussians.apply,
\* which creates the context and runs the checked forward
rasterize_gaussians(i, op, e) ==
    IF ~TypeCheck_rasterize_gaussians(op) THEN Raised("TypeCheckError", NoCtx)
    ELSE IF ~TypeCheck_forward(op) THEN Raised("TypeCheckError", BareCtx)
    ELSE RasterizeGaussians_forward(i, op, e)

\* the annotations of GaussianRasterizer.forward (lines 295-304)
TypeCheck_facade(a) ==
    LET n == a.means3D.shape[1] IN
    /\ IsFloat(a.means3D, <<"num_gaussians", "3">>, n)
    /\ IsFloat(a.means2D, <<"num_gaussians", "3">>, n)
    /\ IsFloat(a.opacities, <<"num_gaussians", "1">>, n)
    /\ \A o \in Optional : a[o] = None \/ IsTensor(a[o])

\* lines 293-352: GaussianRasterizer.forward with keyword arguments a
GaussianRasterizer_forward(i, a, rs, e) ==
    IF ~TypeCheck_facade(a) THEN Raised("TypeCheckError", NoCtx)
    ELSE IF ColourViolation(a) THEN Raised("ContractViolation", NoCtx)
    ELSE IF CovarianceViolation(a) THEN Raised("ContractViolation", NoCtx)
    ELSE rasterize_gaussians(i, DelegatedArgs(a, rs), e)

\* ------------------------------------------ _RasterizeGaussians.backward
\* the gradients autograd hands to backward of call i
GradOutputs(i) ==
    <<Tensor("grad_out_color", i, <<>>), Tensor("grad_out_radii", i, <<>>),
      Tensor("grad_out_depth", i, <<>>)>>

\* a variant that reads the settings of the rasterizer instead of the context's
BackwardArgs_FacadeSettings(c, g) ==
    LET t == c.saved_tensors
    IN  <<raster_settings.bg, t[2], t[6], t[1], t[3], t[4],
          raster_settings.scale_modifier, raster_settings.cov_offset, t[5],
          raster_settings.viewmatrix, raster_settings.projmatrix,
          raster_settings.tanfovx, raster_settings.tanfovy,
          g[1], g[3], t[7], raster_settings.sh_degree, t[11],
          t[8], c.num_rendered, t[9], t[10], raster_settings.debug>>

\* lines 175-218: c is the context, g = <<grad_out_color, grad_out_radii,
\* grad_out_depth>>; saved_tensors = <<colors_precomp, means3D, scales,
\* rotations, cov3Ds_precomp, radii, sh, geomBuffer, binningBuffer, imgBuffer,
\* camerapos, camerarot, depth>>
BackwardArgs(c, g) ==
    LET settings == c.raster_settings
        t == c.saved_tensors
    IN  <<settings.bg, t[2], t[6], t[1], t[3], t[4],
          settings.scale_modifier, settings.cov_offset, t[5],
          settings.viewmatrix, settings.projmatrix,
          settings.tanfovx, settings.tanfovy,
          g[1], g[3], t[7], settings.sh_degree, t[11],
          t[8], c.num_rendered, t[9], t[10], settings.debug>>

\* lines 222-224
BackwardSnapshot(args, after) == cpu_deep_copy_tuple(args)

\* lines 236 and 254: _C.rasterize_gaussians_backward(*args)
BackwardPassed(args, cpu_args) == args

\* lines 237-242
BackwardFailure(cpu_args, e) ==
    IF e.save = "ok"
    THEN [raised |-> "NativeError",
          dump |-> [file |-> "snapshot_bw.dump", content |-> cpu_args]]
    ELSE [raised |-> "SaveError", dump |-> NoDump]

\* a variant that returns nothing for the 2D positions
BackwardGrads_Means2DNone(ret) ==
    <<ret[4], None, ret[6], ret[2], ret[3], ret[7], ret[8], ret[5],
      None, ret[9], None>>

\* a variant with the gradients of scales and rotations exchanged
BackwardGrads_ScalesRotationsSwapped(ret) ==
    <<ret[4], ret[1], ret[6], ret[2], ret[3], ret[8], ret[7], ret[5],
      None, ret[9], None>>

\* lines 226-236 and 256-268: ret = (grad_means2D, grad_colors_precomp,
\* grad_opacities, grad_means3D, grad_cov3Ds_precomp, grad_sh, grad_scales,
\* grad_rotations, grad_camerarot)
BackwardGrads(ret) ==
    <<ret[4], ret[1], ret[6], ret[2], ret[3], ret[7], ret[8], ret[5],
      None, ret[9], None>>

\* a variant in which released saved tensors can still be read
BackwardReachesNative_IgnoresRelease(c) == c.life # "bare"

\* line 175: reading ctx.num_rendered fails on a context forward never
\* completed on; line 191: reading ctx.saved_tensors fails once autograd has
\* released them
BackwardReachesNative(c) == c.life \in {"fresh", "retained"}

\* lines 172-271: the body of backward for call i on context c
RasterizeGaussians_backward(i, c, g, e) ==
    IF ~BackwardReachesNative(c)
    THEN Raised(IF c.life = "bare" THEN "AttributeError" ELSE "SavedTensorsFreed", c)
    ELSE
    LET args == BackwardArgs(c, g)
        debug == c.raster_settings.debug.on
        after == IF e.corrupt THEN Corrupted(args) ELSE args
        cpu_args == IF debug THEN BackwardSnapshot(args, after) ELSE <<>>
        passed == BackwardPassed(args, cpu_args)
        ret == NativeBackward(i)
        fail == IF debug THEN BackwardFailure(cpu_args, e)
                ELSE [raised |-> "NativeError", dump |-> NoDump]
    IN  IF e.nat = "ok"
        THEN [raised |-> "NoError", nativeArgs |-> passed, after |-> after,
              dump |-> NoDump, ret |-> BackwardGrads(ret), ctx |-> c]
        ELSE [raised |-> fail.raised, nativeArgs |-> passed, after |-> after,
              dump |-> fail.dump, ret |-> <<>>, ctx |-> c]

\* the debug flag backward will read from the context, if it reads one
CtxDebug(c) == IF BackwardReachesNative(c) THEN c.raster_settings.debug.on ELSE FALSE

\* whether a call of the facade gets as far as the native entry point
FacadeReachesNative(a, rs) ==
    /\ TypeCheck_facade(a)
    /\ ~ColourViolation(a)
    /\ ~CovarianceViolation(a)
    /\ TypeCheck_rasterize_gaussians(DelegatedArgs(a, rs))
    /\ TypeCheck_forward(DelegatedArgs(a, rs))

\* the optional arguments with which the native entry point is reached
Complete == {"shs", "scales", "rotations", "camerapos", "camerarot"}

\* every way of supplying the optional arguments
AllSupplies == SUBSET Optional

\* the callers of a training loop: a complete call, a call without any
\* optional argument, and a call with the precomputed representations
LoopSupplies ==
    {Complete, {}, {"colors_precomp", "cov3D_precomp", "camerapos", "camerarot"}}

NoCall ==
    [op |-> "none", inst |-> 0, sup |-> {}, rs |-> None, before |-> "none",
     raised |-> "NoError", nativeArgs |-> <<>>,
     after |-> <<>>, dump |-> NoDump, ret |-> <<>>]

NoTwin == [op |-> "none", inst |-> 0, sup |-> {}, on |-> Raised("NoError", NoCtx),
           off |-> Raised("NoError", NoCtx)]

\* lines 275-277: GaussianRasterizer(raster_settings)
Init ==
    /\ raster_settings \in AllSettings
    /\ ctx = <<>>
    /\ last = NoCall
    /\ twin = NoTwin

\* lines 275-277: the caller builds the rasterizer anew with other settings
Construct ==
    \E rs \in AllSettings :
        /\ rs # raster_settings
        /\ raster_settings' = rs
        /\ UNCHANGED <<ctx, last, twin>>

\* lines 293-352 with everything they call: one call of the facade, with the
\* optional arguments drawn from S
Forward(S) ==
    /\ Len(ctx) < NumInst
    /\ \E sup \in S :
       \E e \in EnvOf(FacadeReachesNative(FacadeArgs(Len(ctx) + 1, sup), raster_settings),
                      raster_settings.debug.on) :
        \E i \in {Len(ctx) + 1} :
        \E r \in {GaussianRasterizer_forward(i, FacadeArgs(i, sup), raster_settings, e)} :
            /\ last' = [op |-> "forward", inst |-> i, sup |-> sup,
                        rs |-> raster_settings, before |-> "none",
                        raised |-> r.raised,
                        nativeArgs |-> r.nativeArgs, after |-> r.after,
                        dump |-> r.dump, ret |-> r.ret]
            /\ ctx' = IF r.ctx = NoCtx THEN ctx ELSE Append(ctx, r.ctx)
    /\ UNCHANGED <<raster_settings, twin>>

\* what becomes of the context: autograd releases the saved tensors once
\* backward has returned, unless the caller retains the graph
AfterBackward(c, raised, retain) ==
    IF raised # "NoError" \/ ~BackwardReachesNative(c) THEN c
    ELSE [c EXCEPT !.life = IF retain THEN "retained" ELSE "freed"]

\* whether the caller retains the graph matters only to a backward that returns
RetainOf(reached, e) == IF reached /\ e.nat = "ok" THEN BOOLEAN ELSE {FALSE}

\* lines 172-271: backward on the context of call i
Backward ==
    \E i \in 1..Len(ctx) :
      \E e \in EnvOf(BackwardReachesNative(ctx[i]), CtxDebug(ctx[i])) :
      \E retain \in RetainOf(BackwardReachesNative(ctx[i]), e) :
        \E r \in {RasterizeGaussians_backward(i, ctx[i], GradOutputs(i), e)} :
            /\ last' = [op |-> "backward", inst |-> i, sup |-> {},
                        rs |-> None, before |-> ctx[i].life,
                        raised |-> r.raised,
                        nativeArgs |-> r.nativeArgs, after |-> r.after,
                        dump |-> r.dump, ret |-> r.ret]
            /\ ctx' = [ctx EXCEPT ![i] = AfterBackward(ctx[i], r.raised, retain)]
            /\ UNCHANGED <<raster_settings, twin>>

ForwardLoop == Forward(LoopSupplies)

ForwardAny == Forward(AllSupplies)

Next == Construct \/ ForwardLoop \/ Backward

\* forward and backward calls of several operator invocations, interleaved
Spec == Init /\ [][Next]_vars

NextFacade == last.op = "none" /\ ForwardAny

\* one call of the facade of a newly built rasterizer, with every combination
\* of optional arguments
SpecFacade == Init /\ [][NextFacade]_vars

\* the same facade call under the same native outcome, once with the
\* settings' debug flag on and once with it off
TwinForward ==
    /\ twin.op = "none"
    /\ \E sup \in AllSupplies, v \in 1..NumSettings, i \in 1..NumInst :
       \E e \in EnvOf(FacadeReachesNative(FacadeArgs(i, sup),
                                          GaussianRasterizationSettings(v, TRUE)), TRUE) :
        /\ twin' = [op |-> "forward", inst |-> i, sup |-> sup,
                    on |-> GaussianRasterizer_forward(i, FacadeArgs(i, sup),
                              GaussianRasterizationSettings(v, TRUE), e),
                    off |-> GaussianRasterizer_forward(i, FacadeArgs(i, sup),
                              GaussianRasterizationSettings(v, FALSE), e)]
    /\ UNCHANGED <<raster_settings, ctx, last>>

\* backward on the two contexts of the twin call, under the same native outcome
TwinBackward ==
    /\ twin.op # "none"
    /\ \E e \in EnvOf(BackwardReachesNative(twin.on.ctx), TRUE) :
       \E retain \in RetainOf(BackwardReachesNative(twin.on.ctx), e) :
        LET a == RasterizeGaussians_backward(twin.inst, twin.on.ctx,
                                             GradOutputs(twin.inst), e)
            b == RasterizeGaussians_backward(twin.inst, twin.off.ctx,
                                             GradOutputs(twin.inst), e)
        IN  twin' = [op |-> "backward", inst |-> twin.inst, sup |-> twin.sup,
                     on |-> [a EXCEPT !.ctx = AfterBackward(twin.on.ctx, a.raised, retain)],
                     off |-> [b EXCEPT !.ctx = AfterBackward(twin.off.ctx, b.raised, retain)]]
    /\ UNCHANGED <<raster_settings, ctx, last>>

NextTwin == TwinForward \/ TwinBackward

SpecTwin == Init /\ [][NextTwin]_vars

\* ---------------------------------------------------------- properties
\* exactly one colour representation among the supplied arguments
OneColour(sup) == ("shs" \in sup) # ("colors_precomp" \in sup)

\* exactly one covariance representation: the scale/rotation pair, or the
\* precomputed covariance
OneCovariance(sup) ==
    LET c == sup \cap {"scales", "rotations", "cov3D_precomp"}
    IN  c = {"scales", "rotations"} \/ c = {"cov3D_precomp"}

\* the native entry point was called during the most recent call
NativeCalled == last.nativeArgs # <<>>

\* the native entry point was called and raised
NativeRaised == NativeCalled /\ last.raised # "NoError"

\* C1: the facade raises the input-contract violation, without reaching the
\* native entry point, exactly for the calls that supply zero or both colour
\* representations or anything but exactly one covariance representation.
C1_ContractViolation ==
    last.op = "forward" =>
        /\ (last.raised = "ContractViolation")
              <=> ~(OneColour(last.sup) /\ OneCovariance(last.sup))
        /\ (last.raised = "ContractViolation" => ~NativeCalled)

\* C1 witness: scales without rotations is rejected
C1_Witness ==
    /\ last.op = "forward"
    /\ last.raised = "ContractViolation"
    /\ OneColour(last.sup)
    /\ last.sup \cap {"scales", "rotations", "cov3D_precomp"} = {"scales"}

\* what the native forward call should receive for the optional argument n
SuppliedOrEmpty(n) ==
    IF n \in last.sup THEN Tensor(n, last.inst, ShapeOf(n)) ELSE EmptyTensor

\* C2: every facade call with exactly one colour and exactly one covariance
\* representation reaches the native rasterize entry point, with an empty
\* sentinel in the place of each omitted optional argument.
C2_SentinelsReachNative ==
    (last.op = "forward" /\ OneColour(last.sup) /\ OneCovariance(last.sup)) =>
        /\ NativeCalled
        /\ last.nativeArgs[3] = SuppliedOrEmpty("colors_precomp")
        /\ last.nativeArgs[5] = SuppliedOrEmpty("scales")
        /\ last.nativeArgs[6] = SuppliedOrEmpty("rotations")
        /\ last.nativeArgs[9] = SuppliedOrEmpty("cov3D_precomp")
        /\ last.nativeArgs[16] = SuppliedOrEmpty("shs")
        /\ last.nativeArgs[18] = SuppliedOrEmpty("camerapos")

\* the file a failing call of the given kind writes its snapshot to
SnapshotFile(op) == IF op = "forward" THEN "snapshot_fw.dump" ELSE "snapshot_bw.dump"

\* the debug flag the most recent native call was given
CallDebug == last.nativeArgs[Len(last.nativeArgs)].on

\* content is a host-resident copy of the arguments as they were before the call
HostCopyOfArgs(content) ==
    /\ Len(content) = Len(last.nativeArgs)
    /\ \A k \in 1..Len(content) :
          IF last.nativeArgs[k].kind = "tensor"
          THEN content[k] = [last.nativeArgs[k] EXCEPT !.dev = "cpu", !.data = "orig"]
          ELSE content[k] = last.nativeArgs[k]

\* C3: a failing native call with debug on leaves a host copy of the pre-call
\* arguments in the snapshot file of its direction and re-raises the original
\* failure; with debug off the failure propagates and nothing is written.
C3_SnapshotThenReraise ==
    NativeRaised =>
        IF CallDebug
        THEN /\ last.dump.file = SnapshotFile(last.op)
             /\ HostCopyOfArgs(last.dump.content)
             /\ last.raised = "NativeError"
        ELSE /\ last.dump = NoDump
             /\ last.raised = "NativeError"

\* C4: whenever the native call raises, the caller receives that error,
\* whether or not the snapshot could be written.
C4_OriginalErrorSurvives ==
    NativeRaised => last.raised = "NativeError"

\* backward of the most recent call returned its gradients
BackwardReturned == last.op = "backward" /\ last.raised = "NoError"

\* C5 as stated: a gradient for every differentiable input, None for the
\* 2D-position placeholder (entry 2) and for the settings (entry 11).
C5_NoneForMeans2D ==
    BackwardReturned =>
        /\ \A k \in {1, 3, 4, 5, 6, 7, 8, 10} : IsTensor(last.ret[k])
        /\ last.ret[2] = None
        /\ last.ret[11] = None

\* C5 amended: backward returns a gradient for every forward input except
\* camerapos (entry 9) and the settings (entry 11), which get None; the
\* 2D-position placeholder (entry 2) gets the native gradMeans2D.
C5_NoneForCameraposAndSettings ==
    BackwardReturned =>
        /\ \A k \in {1, 2, 3, 4, 5, 6, 7, 8, 10} : IsTensor(last.ret[k])
        /\ last.ret[2].name = "gradMeans2D"
        /\ last.ret[9] = None
        /\ last.ret[11] = None

\* C5 witness: a backward that returned after a forward through the facade
C5_Witness == BackwardReturned /\ Len(last.ret) = 11 /\ last.before = "fresh"

\* the native gradient named n of the most recent call
Grad(n) == Tensor(n, last.inst, <<>>)

\* C6: backward returns eleven entries, entry i being the native gradient of
\* forward input i (means3D, means2D, sh, colors_precomp, opacities, scales,
\* rotations, cov3Ds_precomp, camerapos, camerarot, raster_settings).
C6_GradientOrder ==
    BackwardReturned =>
        last.ret = <<Grad("gradMeans3D"), Grad("gradMeans2D"), Grad("gradSh"),
                     Grad("gradColorRepr"), Grad("gradOpacities"),
                     Grad("gradScales"), Grad("gradRotations"),
                     Grad("gradCovRepr"), None, Grad("gradCameraRot"), None>>

\* C6 witness: the second of two invocations returned its gradients
C6_Witness == BackwardReturned /\ last.inst = 2 /\ NativeCalled

SameButDebug(x, y) ==
    /\ Len(x) = Len(y)
    /\ \A k \in 1..(Len(x) - 1) : x[k] = y[k]
    /\ x[Len(x)] = Flag("debug", TRUE)
    /\ y[Len(y)] = Flag("debug", FALSE)

\* the two settings agree in every field but debug
SameSettingsButDebug(x, y) ==
    \A f \in DOMAIN x : f # "debug" => x[f] = y[f]

Held(c) == <<c.raster_settings, c.num_rendered, c.saved_tensors>>

\* the native backward arguments that come from the context c of call i:
\* settings, radii, rendered-instance-count and the three opaque buffers
FromForward(args, c, i) ==
    /\ args[3] = Tensor("radii", i, <<>>)
    /\ args[19] = Tensor("geomBuffer", i, <<>>)
    /\ args[20] = Scalar("numRendered", i)
    /\ args[21] = Tensor("binningBuffer", i, <<>>)
    /\ args[22] = Tensor("imageBuffer", i, <<>>)
    /\ <<args[1], args[7], args[8], args[10], args[11], args[12], args[13],
         args[17], args[23]>>
         = <<c.raster_settings.bg, c.raster_settings.scale_modifier,
             c.raster_settings.cov_offset, c.raster_settings.viewmatrix,
             c.raster_settings.projmatrix, c.raster_settings.tanfovx,
             c.raster_settings.tanfovy, c.raster_settings.sh_degree,
             c.raster_settings.debug>>

C9_Step ==
    \* a completed forward leaves in its own context the settings it was
    \* given and the artifacts the native call produced for it
    /\ (Len(ctx') > Len(ctx) /\ ctx'[Len(ctx')].life # "bare") =>
          /\ ctx'[Len(ctx')].raster_settings = raster_settings
          /\ ctx'[Len(ctx')].num_rendered = Scalar("numRendered", Len(ctx'))
          /\ ctx'[Len(ctx')].saved_tensors[6] = Tensor("radii", Len(ctx'), <<>>)
          /\ ctx'[Len(ctx')].saved_tensors[8] = Tensor("geomBuffer", Len(ctx'), <<>>)
          /\ ctx'[Len(ctx')].saved_tensors[9] = Tensor("binningBuffer", Len(ctx'), <<>>)
          /\ ctx'[Len(ctx')].saved_tensors[10] = Tensor("imageBuffer", Len(ctx'), <<>>)
    \* no later call changes what a context holds
    /\ \A i \in DOMAIN ctx : ctx[i].life # "bare" => Held(ctx'[i]) = Held(ctx[i])
    \* backward hands the native entry point what its own context holds
    /\ (last'.op = "backward" /\ last'.nativeArgs # <<>>) =>
          FromForward(last'.nativeArgs, ctx[last'.inst], last'.inst)

\* C9: under every interleaving, backward of an invocation passes to the
\* native entry point the buffers, rendered-instance-count, radii and settings
\* of the forward of that same invocation, unmodified.
C9_OwnArtifacts == [][C9_Step]_vars

\* C9 witness: backward of the first invocation reaches the native entry point
\* after a second forward has completed and the facade has other settings
C9_Witness ==
    /\ last.op = "backward"
    /\ NativeCalled
    /\ last.inst = 1
    /\ Len(ctx) = 2
    /\ ctx[2].life # "bare"
    /\ ctx[1].raster_settings # raster_settings
    /\ ctx[1].raster_settings # ctx[2].raster_settings

\* the order of the native forward arguments
ForwardOrder ==
    <<"bg", "means3D", "colors_precomp", "opacities", "scales", "rotations",
      "scale_modifier", "cov_offset", "cov3D_precomp", "viewmatrix",
      "projmatrix", "tanfovx", "tanfovy", "image_height", "image_width",
      "shs", "sh_degree", "camerapos", "prefiltered", "debug">>

\* the order of the native backward arguments
BackwardOrder ==
    <<"bg", "means3D", "radii", "colors_precomp", "scales", "rotations",
      "scale_modifier", "cov_offset", "cov3D_precomp", "viewmatrix",
      "projmatrix", "tanfovx", "tanfovy", "grad_out_color", "grad_out_depth",
      "shs", "sh_degree", "camerapos", "geomBuffer", "numRendered",
      "binningBuffer", "imageBuffer", "debug">>

\* x is the value named n of call i under settings rs: a field of the
\* settings, a tensor of the call, or the sentinel of an omitted argument
IsArgument(x, n, i, rs) ==
    IF n \in DOMAIN rs THEN x = rs[n]
    ELSE \/ (x.name = n /\ x.src = i)
         \/ (n \in Optional /\ x = EmptyTensor)

\* C10: the native forward call gets the twenty arguments and the native
\* backward call the twenty-three arguments in the order of the interface,
\* and the radii gradient is no argument of the backward call.
C10_ArgumentOrder ==
    /\ (last.op = "forward" /\ NativeCalled) =>
          /\ Len(last.nativeArgs) = Len(ForwardOrder)
          /\ \A k \in 1..Len(ForwardOrder) :
                IsArgument(last.nativeArgs[k], ForwardOrder[k], last.inst, last.rs)
          /\ \A k \in {3, 5, 6, 9, 16, 18} :
                last.nativeArgs[k] = SuppliedOrEmpty(ForwardOrder[k])
    /\ (last.op = "backward" /\ NativeCalled) =>
          /\ Len(last.nativeArgs) = Len(BackwardOrder)
          /\ \A k \in 1..Len(BackwardOrder) :
                /\ IsArgument(last.nativeArgs[k], BackwardOrder[k], last.inst,
                              ctx[last.inst].raster_settings)
                /\ last.nativeArgs[k] # GradOutputs(last.inst)[2]

\* C10 witness: a backward call reached the native entry point
C10_Witness ==
    /\ last.op = "backward"
    /\ NativeCalled
    /\ Len(last.nativeArgs) = 23
    /\ last.before = "retained"

====
